---- MODULE Spec2Model ----
(***************************************************************************)
(* Model of the live visualization loop of seacharts (simbli/ENC):         *)
(*   - seacharts/display/display.py : Display (construction, event         *)
(*     handling, update_plot, the visualization loop, save_frame)          *)
(*   - seacharts/settings.py        : read_ship_poses                      *)
(*   - seacharts/seacharts.py       : ENC.write_ships_to_csv (the writer   *)
(*     process of the pose file) and ENC.save_visualization                *)
(* The display runs in its own process (ENC.visualize_environment); the    *)
(* pose file data/ships.csv is the only state it shares with the writer.   *)
(***************************************************************************)
EXTENDS Integers, Sequences, FiniteSets, TLC

\* ------------------------------------------------------------- bounds
MaxTicks == 3        \* ticks of the visualization loop explored
MaxShips == 2        \* poses a writer puts into the pose file
MaxFrames == 5       \* frame files on disk when the animation is assembled
MaxFps == 2          \* values of config.fps explored (0 < fps in settings.py)

\* ------------------------------------------------------------- constants
PadWidth == 5        \* save_frame: range(5 - len(str(i)))

\* ------------------------------------------------------------- values
Header == "header"                       \* ('x_position','y_position','heading')
Rows == {"r1", "r2"}                     \* data rows (x, y, heading) of the file
Environment == {"Seabed", "Land", "Shore", "Shallows", "Rocks"}   \* scope.environment

None == [some |-> FALSE, val |-> <<>>]   \* Python None
Some(v) == [some |-> TRUE, val |-> v]

Max(a, b) == IF a >= b THEN a ELSE b

RECURSIVE SeqsUpTo(_, _)
SeqsUpTo(S, n) ==
    IF n = 0 THEN {<<>>}
    ELSE LET shorter == SeqsUpTo(S, n - 1)
         IN  shorter \cup {Append(s, x) : s \in {t \in shorter : Len(t) = n - 1}, x \in S}

VARIABLES
    pc,            \* position of the display process
    added,         \* feature layers added to the topography axes
    rendered,      \* feature layers rendered on the canvas
    background,    \* Display.background: canvas snapshot (set of layers)
    figure_open,   \* plt.fignum_exists(figure.number), Display.is_active
    ships,         \* Display.ships: list of patches
    allocated,     \* number of patches.Polygon objects constructed
    draws,         \* number of figure.canvas.draw() calls so far
    poses,         \* result of the last config.read_ship_poses()
    counts,        \* the lengths of the non-absent pose reads so far
    count,         \* loop counter of init_visualization_loop
    frames,        \* frame captures in the order savefig wrote them
    file,          \* lines of the pose file data/ships.csv
    wopen,         \* the writer holds the pose file open
    wbuf,          \* lines the writer has written but not flushed
    gif            \* result of ENC.save_visualization

vars == <<pc, added, rendered, background, figure_open, ships, allocated,
          draws, poses, counts, count, frames, file, wopen, wbuf, gif>>

displayVars == <<pc, added, rendered, background, figure_open, ships,
                 allocated, draws, poses, counts, count, frames>>
writerVars == <<file, wopen, wbuf>>

\* ------------------------------------------------------------- features.Ship, colors.color
\* Ship(*row): the pose built from one data row; its hull and its name are
\* derived from the row.
Ship(row) == [name |-> <<"name", row>>, hull |-> <<"hull", row>>]

\* color(name): the rendering colour selected by a name.
color(name) == <<"color", name>>

\* ------------------------------------------------------------- settings.read_ship_poses
\* line 271: one Ship per row, in row order.
ShipsOf(rows) == [i \in 1..Len(rows) |-> Ship(rows[i])]

\* Outcomes of one call: a record [raised, result].
\*   open() raises PermissionError while another process holds the file
\*     and the platform denies sharing: caught, returns None;
\*   next(reader) on a file without a first line raises StopIteration,
\*     which the except clause does not catch;
\*   otherwise the rows after the header become the pose list.
read_ship_poses ==
    (IF wopen THEN {[raised |-> FALSE, result |-> None]} ELSE {})
    \cup
    (IF file = <<>>
       THEN {[raised |-> TRUE, result |-> None]}
       ELSE {[raised |-> FALSE, result |-> Some(ShipsOf(Tail(file)))]})

\* ------------------------------------------------------------- variants of the for loop body
\* variant: the else branch of line 65 is missing, nothing is hidden.
ReconcileStepNoHide(sl, ps, i, alloc) ==
    LET grown == IF i > Len(sl)
                   THEN Append(sl, [id |-> alloc + 1,
                                    colour |-> color(ps[i].name),
                                    xy |-> ps[i].hull,
                                    visible |-> TRUE])
                   ELSE sl
    IN  IF i <= Len(ps)
          THEN [grown EXCEPT ![i].xy = ps[i].hull, ![i].visible = TRUE]
          ELSE grown

\* variant: the colour is set again from the pose's name on every update.
ReconcileStepRecolour(sl, ps, i, alloc) ==
    LET grown == IF i > Len(sl)
                   THEN Append(sl, [id |-> alloc + 1,
                                    colour |-> color(ps[i].name),
                                    xy |-> ps[i].hull,
                                    visible |-> TRUE])
                   ELSE sl
    IN  IF i <= Len(ps)
          THEN [grown EXCEPT ![i].xy = ps[i].hull, ![i].visible = TRUE,
                             ![i].colour = color(ps[i].name)]
          ELSE [grown EXCEPT ![i].visible = FALSE]

\* ------------------------------------------------------------- Display.update_plot, lines 54-66
\* One iteration i of the for loop, applied to the slot list.
ReconcileStep(sl, ps, i, alloc) ==
    LET grown == IF i > Len(sl)
                   THEN Append(sl, [id |-> alloc + 1,
                                    colour |-> color(ps[i].name),
                                    xy |-> ps[i].hull,
                                    visible |-> TRUE])
                   ELSE sl
    IN  IF i <= Len(ps)
          THEN [grown EXCEPT ![i].xy = ps[i].hull, ![i].visible = TRUE]
          ELSE [grown EXCEPT ![i].visible = FALSE]

RECURSIVE ReconcileFrom(_, _, _, _, _)
ReconcileFrom(sl, ps, i, n, alloc) ==
    IF i > n THEN sl
    ELSE ReconcileFrom(ReconcileStep(sl, ps, i, alloc), ps, i + 1, n,
                       IF i > Len(sl) THEN alloc + 1 ELSE alloc)

\* variant: slots beyond the last pose are dropped instead of hidden.
ReconcileShrink(sl, ps, alloc) ==
    SubSeq(ReconcileFrom(sl, ps, 1, Max(Len(ps), Len(sl)), alloc), 1, Len(ps))

Reconcile(sl, ps, alloc) ==
    ReconcileFrom(sl, ps, 1, Max(Len(ps), Len(sl)), alloc)

\* ------------------------------------------------------------- Display.save_frame
RECURSIVE Str(_)
Str(i) == IF i < 10 THEN <<i>> ELSE Append(Str(i \div 10), i % 10)

Zeros(k) == [j \in 1..k |-> 0]

FrameName(i) == Zeros(PadWidth - Len(Str(i))) \o Str(i)

\* ------------------------------------------------------------- Display.__init__
Init ==
    /\ pc = "copy_background"
    /\ added = {}
    /\ rendered = {}
    /\ background = {}
    /\ figure_open = TRUE
    /\ ships = <<>>
    /\ allocated = 0
    /\ draws = 0
    /\ poses = None
    /\ counts = {}
    /\ count = 0
    /\ frames = <<>>
    /\ file = <<Header>>
    /\ wopen = FALSE
    /\ wbuf = <<>>
    /\ gif = None

\* lines 17-18: the canvas snapshot and the empty slot list.
CopyBackground ==
    /\ pc = "copy_background"
    /\ background' = rendered
    /\ ships' = <<>>
    /\ pc' = "draw_environment"
    /\ UNCHANGED <<added, rendered, figure_open, allocated, draws, poses,
                   counts, count, frames, writerVars, gif>>

\* draw_environment: every layer but the seabed is added to the axes.
DrawEnvironment ==
    /\ pc = "draw_environment"
    /\ added' = added \cup {f \in Environment : f # "Seabed"}
    /\ pc' = "init_event_manager"
    /\ UNCHANGED <<rendered, background, figure_open, ships, allocated, draws,
                   poses, counts, count, frames, writerVars, gif>>

\* init_event_manager: canvas.draw() renders what the axes hold.
InitEventManager ==
    /\ pc = "init_event_manager"
    /\ rendered' = added
    /\ draws' = draws + 1
    /\ pc' = "check"
    /\ UNCHANGED <<added, background, figure_open, ships, allocated,
                   poses, counts, count, frames, writerVars, gif>>

\* ------------------------------------------------------------- Display.init_visualization_loop
\* variant: close() without the return that follows it.
LoopCheckNoReturn ==
    /\ pc = "check"
    /\ pc' = "pause"
    /\ UNCHANGED <<added, rendered, background, figure_open, ships, allocated,
                   draws, poses, counts, count, frames, writerVars, gif>>

\* lines 83-85: the liveness check at the top of an iteration.
LoopCheck ==
    /\ pc = "check"
    /\ pc' = IF ~figure_open THEN "closed" ELSE "pause"
    /\ UNCHANGED <<added, rendered, background, figure_open, ships, allocated,
                   draws, poses, counts, count, frames, writerVars, gif>>

Events == {"none", "key_other", "key_escape", "close_window", "destroyed"}

\* handle_key / close / the window's own close: the figure after one event.
\* Escape calls close(), which is plt.close(); a window close or any other
\* destruction removes the figure itself (the close_event callback adds
\* nothing to it); any other key leaves the figure as it is.
HandleEvent(open, ev) ==
    IF ev \in {"key_escape", "close_window", "destroyed"} THEN FALSE ELSE open

\* line 86: plt.pause runs the GUI event loop; callbacks run here.
Pause ==
    /\ pc = "pause"
    /\ count < MaxTicks
    /\ \E ev \in Events : figure_open' = HandleEvent(figure_open, ev)
    /\ pc' = "update_plot"
    /\ UNCHANGED <<added, rendered, background, ships, allocated, draws,
                   poses, counts, count, frames, writerVars, gif>>

\* variant: None is taken for an empty pose list.
HasPosesAlways(result) == TRUE

\* variant: canvas.draw() without the is_active test.
FlushAlways(open, d) == d + 1

\* line 52: the test "poses is not None".
HasPoses(result) == result.some

\* lines 67-68: canvas.draw() only while the figure exists.
Flush(open, d) == IF open THEN d + 1 ELSE d

\* line 87: update_plot, the whole handler.
UpdatePlot ==
    /\ pc = "update_plot"
    /\ \E r \in read_ship_poses :
         IF r.raised
           THEN /\ pc' = "crashed"
                /\ UNCHANGED <<ships, allocated, draws, poses, counts>>
           ELSE /\ poses' = r.result
                /\ pc' = "save_frame"
                /\ IF HasPoses(r.result)
                     THEN /\ ships' = Reconcile(ships, r.result.val, allocated)
                          /\ allocated' = allocated + (Len(ships') - Len(ships))
                          /\ draws' = Flush(figure_open, draws)
                          /\ counts' = counts \cup {Len(r.result.val)}
                     ELSE UNCHANGED <<ships, allocated, draws, counts>>
    /\ UNCHANGED <<added, rendered, background, figure_open, count, frames,
                   writerVars, gif>>

\* variant: the counter only advances in ticks that reconciled.
SaveFrameCountOnUpdate ==
    /\ pc = "save_frame"
    /\ frames' = Append(frames, [name |-> FrameName(count), live |-> figure_open])
    /\ count' = IF poses.some THEN count + 1 ELSE count
    /\ poses' = None
    /\ pc' = "check"
    /\ UNCHANGED <<added, rendered, background, figure_open, ships, allocated,
                   draws, counts, writerVars, gif>>

\* lines 88-89: save_frame(count); count += 1. update_plot has returned,
\* so its local poses is gone.
SaveFrame ==
    /\ pc = "save_frame"
    /\ frames' = Append(frames, [name |-> FrameName(count), live |-> figure_open])
    /\ count' = count + 1
    /\ poses' = None
    /\ pc' = "check"
    /\ UNCHANGED <<added, rendered, background, figure_open, ships, allocated,
                   draws, counts, writerVars, gif>>

\* ------------------------------------------------------------- ENC.write_ships_to_csv
\* open(path_ships, 'w') truncates the file; the lines go to the buffer.
WriterOpen ==
    /\ ~wopen
    /\ \E rows \in SeqsUpTo(Rows, MaxShips) :
         wbuf' = <<Header>> \o rows
    /\ file' = <<>>
    /\ wopen' = TRUE
    /\ UNCHANGED <<displayVars, gif>>

\* a full buffer is flushed before the file is closed.
WriterFlush ==
    /\ wopen
    /\ wbuf # <<>>
    /\ file' = Append(file, Head(wbuf))
    /\ wbuf' = Tail(wbuf)
    /\ UNCHANGED <<wopen, displayVars, gif>>

\* leaving the with block flushes the rest and closes the file.
WriterClose ==
    /\ wopen
    /\ file' = file \o wbuf
    /\ wbuf' = <<>>
    /\ wopen' = FALSE
    /\ UNCHANGED <<displayVars, gif>>

Next ==
    \/ CopyBackground
    \/ DrawEnvironment
    \/ InitEventManager
    \/ LoopCheck
    \/ Pause
    \/ UpdatePlot
    \/ SaveFrame
    \/ WriterOpen
    \/ WriterFlush
    \/ WriterClose

Spec == Init /\ [][Next]_vars

\* ------------------------------------------------------------- ENC.save_visualization
Repeat(x, k) == [j \in 1..k |-> x]

Last(s) == s[Len(s)]

\* lines 108-117 on the images in the order glob.glob listed them:
\*   frame1, *frames = images            (ValueError on no image)
\*   [frame1] * fps + frames + [frames[-1]] * fps   (IndexError on one image)
\*   frame1.save(append_images=...)      (frame1, then the appended images)
\* The frame files stay on disk while the animation is written.
save_visualization(images, fps) ==
    IF images = <<>> \/ Tail(images) = <<>>
      THEN [raised |-> TRUE, fps |-> fps, frames |-> <<>>]
      ELSE LET frame1 == Head(images)
               rest == Tail(images)
           IN  [raised |-> FALSE, fps |-> fps,
                frames |-> <<frame1>> \o Repeat(frame1, fps) \o rest
                           \o Repeat(Last(rest), fps)]

\* line 107: glob.glob returns the frame files in arbitrary order.
Listings(names) ==
    {[i \in 1..Len(names) |-> names[p[i]]] : p \in Permutations(1..Len(names))}

\* The display process has ended after n ticks that each wrote a frame
\* (every read found the writer holding the file), and the parent process
\* is about to assemble the animation.
InitSave ==
    /\ \E n \in 1..MaxFrames :
         /\ count = n
         /\ frames = [i \in 1..n |-> [name |-> FrameName(i - 1), live |-> i < n]]
    /\ pc = "closed"
    /\ added = {f \in Environment : f # "Seabed"}
    /\ rendered = added
    /\ background = {}
    /\ figure_open = FALSE
    /\ ships = <<>>
    /\ allocated = 0
    /\ draws = 1
    /\ poses = None
    /\ counts = {}
    /\ file = <<Header>>
    /\ wopen = FALSE
    /\ wbuf = <<>>
    /\ gif = None

SaveVisualization ==
    /\ pc = "closed"
    /\ \E images \in Listings([i \in 1..Len(frames) |-> frames[i].name]),
          fps \in 1..MaxFps :
         gif' = Some(save_visualization(images, fps))
    /\ UNCHANGED <<displayVars, writerVars>>

NextSave == SaveVisualization

SpecSave == InitSave /\ [][NextSave]_vars

\* ------------------------------------------------------------- properties
AfterReconcile == pc = "save_frame" /\ poses.some

MaxOf(S) == IF S = {} THEN 0 ELSE CHOOSE m \in S : \A x \in S : x <= m

\* C1: the number of entries in Display.ships equals the largest length among
\* the non-absent pose reads so far (0 before the first), and no step of the
\* program, an absent read or a shorter read included, makes it smaller.
C1_SlotCountIsMaxRead ==
    /\ [](Len(ships) = MaxOf(counts))
    /\ [][Len(ships') >= Len(ships)]_vars

\* a read of no pose after a read of two: the slot count stays at two.
C1_Witness ==
    /\ AfterReconcile
    /\ Len(poses.val) = 0
    /\ Len(ships) = 2
    /\ counts = {0, 2}

\* C2: right after a reconciliation with m poses, slots 1..m are visible with
\* the hull of the pose at the same index, the slots after m are invisible; a
\* reconciliation with no pose keeps the slot count, and doing it again
\* changes nothing.
C2_VisibleSlots ==
    AfterReconcile =>
      /\ Len(poses.val) <= Len(ships)
      /\ \A i \in 1..Len(ships) :
           IF i <= Len(poses.val)
             THEN ships[i].visible /\ ships[i].xy = poses.val[i].hull
             ELSE ~ships[i].visible

C2_EmptyRead ==
    (pc = "update_plot" /\ pc' = "save_frame" /\ poses' = Some(<<>>)) =>
      /\ Len(ships') = Len(ships)
      /\ Reconcile(ships', <<>>, allocated') = ships'

C2_Visibility == []C2_VisibleSlots /\ [][C2_EmptyRead]_vars

\* one pose for two slots: the first is shown, the second hidden.
C2_Witness ==
    /\ AfterReconcile
    /\ Len(poses.val) = 1
    /\ Len(ships) = 2
    /\ ~ships[2].visible

\* C3: a tick whose read returns None changes no slot, hides nothing and
\* flushes nothing, and still goes on to write one frame named by the
\* counter and to advance the counter by one.
C3_AbsentRead ==
    (pc = "update_plot" /\ pc' # "crashed" /\ pc' # pc /\ ~poses'.some) =>
      /\ pc' = "save_frame"
      /\ ships' = ships
      /\ allocated' = allocated
      /\ draws' = draws
      /\ counts' = counts

C3_FrameOnSkip ==
    (pc = "save_frame" /\ ~poses.some /\ pc' # pc) =>
      /\ Len(frames') = Len(frames) + 1
      /\ count' = count + 1
      /\ ships' = ships

C3_TransientReadSkip == [][C3_AbsentRead /\ C3_FrameOnSkip]_vars

\* an absent read while a slot is visible: the slot is still visible.
C3_Witness ==
    /\ pc = "save_frame"
    /\ ~poses.some
    /\ Len(ships) = 2
    /\ ships[1].visible

\* C4: the frames written so far carry the counter values 0, 1, ..., N-1 in
\* that order, zero-padded to five digits, one per completed tick, whether
\* or not the tick reconciled; the counter only ever goes up by one.
RECURSIVE Value(_)
Value(digits) ==
    IF digits = <<>> THEN 0
    ELSE 10 * Value(SubSeq(digits, 1, Len(digits) - 1)) + digits[Len(digits)]

C4_FramesDense ==
    /\ Len(frames) = count
    /\ \A i \in 1..Len(frames) :
         /\ Value(frames[i].name) = i - 1
         /\ Len(frames[i].name) = PadWidth

C4_CounterStep ==
    /\ count' \in {count, count + 1}
    /\ Len(frames') >= Len(frames)
    /\ SubSeq(frames', 1, Len(frames)) = frames

C4_FrameMonotonicity == []C4_FramesDense /\ [][C4_CounterStep]_vars

\* three frames written with the figure open, two of them by ticks that did
\* not reconcile (one draw by init_event_manager, one by a reconciliation).
C4_Witness ==
    /\ Len(frames) = 3
    /\ figure_open
    /\ draws = 2

\* C5: an existing slot keeps its index, its shape object and its colour in
\* every step; a new slot gets a fresh object and the colour of the name of
\* the pose at its index; no object sits at two indices.
C5_SlotsKept ==
    /\ Len(ships') >= Len(ships)
    /\ \A i \in 1..Len(ships) :
         /\ ships'[i].id = ships[i].id
         /\ ships'[i].colour = ships[i].colour
    /\ \A i \in (Len(ships) + 1)..Len(ships') :
         /\ ships'[i].colour = color(poses'.val[i].name)
         /\ \A j \in 1..Len(ships) : ships[j].id # ships'[i].id

C5_DistinctObjects ==
    \A i, j \in 1..Len(ships) : ships[i].id = ships[j].id => i = j

C5_SlotIdentityAndColour == []C5_DistinctObjects /\ [][C5_SlotsKept]_vars

\* a slot shown with a pose whose name selects another colour than its own.
C5_Witness ==
    /\ AfterReconcile
    /\ Len(poses.val) >= 1
    /\ ships[1].visible
    /\ ships[1].colour # color(poses.val[1].name)

\* C6: whatever the writer of the pose file is doing, a read by the display
\* loop returns None or the complete pose set of a finished write, and never
\* raises into update_plot.
C6_ReadStep ==
    (pc = "update_plot" /\ pc' # pc) =>
      /\ pc' # "crashed"
      /\ (poses'.some => (~wopen /\ wbuf = <<>>))

C6_WriterNeverBreaksLoop == [][C6_ReadStep]_vars

\* C7: the figure, once closed, stays closed; the check at the top of an
\* iteration with the figure closed returns, with the figure open it goes on
\* to the tick; no tick starts with the figure closed; the loop only returns
\* with the figure closed and never resumes.
C7_Step ==
    /\ ~figure_open => ~figure_open'
    /\ (pc = "check" /\ pc' # pc) =>
         pc' = IF figure_open THEN "pause" ELSE "closed"
    /\ (pc' = "pause" /\ pc # "pause") => figure_open
    /\ pc = "closed" => pc' = "closed"

C7_ReturnedOnlyWhenClosed == pc = "closed" => ~figure_open

C7_Termination == []C7_ReturnedOnlyWhenClosed /\ [][C7_Step]_vars

\* the loop has returned after a session of at least two ticks.
C7_Witness ==
    /\ pc = "closed"
    /\ ~figure_open
    /\ count >= 2

\* C8: an assembled animation holds the frames in the lexical order of their
\* names, which is the order they were captured in, whatever order the
\* listing gave them in, the first and the last one held.
RECURSIVE Collapse(_)
Collapse(s) ==
    IF Len(s) <= 1 THEN s
    ELSE IF s[1] = s[2] THEN Collapse(Tail(s))
         ELSE <<s[1]>> \o Collapse(Tail(s))

RECURSIVE LexLess(_, _)
LexLess(a, b) ==
    IF a = <<>> THEN b # <<>>
    ELSE IF b = <<>> THEN FALSE
    ELSE IF Head(a) # Head(b) THEN Head(a) < Head(b)
    ELSE LexLess(Tail(a), Tail(b))

C8_AnimationInCaptureOrder ==
    (gif.some /\ ~gif.val.raised) =>
      /\ Collapse(gif.val.frames) = [i \in 1..Len(frames) |-> frames[i].name]
      /\ \A i \in 1..(Len(gif.val.frames) - 1) :
           \/ gif.val.frames[i] = gif.val.frames[i + 1]
           \/ LexLess(gif.val.frames[i], gif.val.frames[i + 1])

\* C9: once the background snapshot is taken it holds every static layer of
\* the environment other than the seabed.
C9_BackgroundHoldsStaticLayers ==
    pc # "copy_background" => background = {f \in Environment : f # "Seabed"}

\* C10: the figure only closes during the pause of a tick; that tick still
\* runs update_plot without a canvas.draw() and writes its frame, the next
\* check returns, and so at most one frame is written with the figure
\* closed: exactly one, the last, when the loop has returned.
ClosedFrames == {i \in 1..Len(frames) : ~frames[i].live}

C10_AtMostOneFrame ==
    /\ Cardinality(ClosedFrames) <= 1
    /\ pc = "closed" => ClosedFrames = {Len(frames)}

C10_Step ==
    /\ figure_open' # figure_open => (pc = "pause" /\ pc' = "update_plot")
    /\ ~figure_open => draws' = draws
    /\ (~figure_open /\ pc = "update_plot" /\ pc' = "save_frame" /\ poses'.some) =>
         /\ Len(ships') = Max(Len(ships), Len(poses'.val))
         /\ \A i \in 1..Len(ships') : ships'[i].visible = (i <= Len(poses'.val))
    /\ (~figure_open /\ pc = "save_frame" /\ pc' # pc) =>
         /\ pc' = "check"
         /\ count' = count + 1
         /\ frames' = Append(frames, [name |-> FrameName(count), live |-> FALSE])
    /\ (~figure_open /\ pc = "check" /\ pc' # pc) => pc' = "closed"

C10_WorkAfterClose == []C10_AtMostOneFrame /\ [][C10_Step]_vars

\* a tick that reconciled two poses after the figure was closed in its pause.
C10_Witness ==
    /\ AfterReconcile
    /\ ~figure_open
    /\ Len(poses.val) = 2
    /\ ships[2].visible

====
